---- MODULE Spec2Model ----
(***************************************************************************)
(* Model of NouvellesLignesPatients.py: extraction of the rows of source   *)
(* workbooks that are missing from a principal (reference) workbook, keyed *)
(* by (hospital, date).                                                    *)
(*                                                                         *)
(* Text is a tuple of one-character strings, so that lower(), substring    *)
(* search, slicing and strptime are computed and not assumed.  The letters *)
(* with a circumflex are written "o^" and "O^".                            *)
(***************************************************************************)
EXTENDS Integers, Sequences, FiniteSets, TLC

\* ------------------------------------------------------------------ bounds
MaxRows == 2
MaxFiles == 2
MaxSeqLen == 3
MaxHeaderLen == 9

\* -------------------------------------------------------- program constants
\* find_column's default max_col
DefaultMaxCol == 8
\* reference_hospital_name[:10]
TitleSlice == 10

\* --------------------------------------------------------------------- text
Range(s) == {s[i] : i \in 1..Len(s)}

RECURSIVE SeqsUpTo(_, _)
SeqsUpTo(S, n) ==
  IF n = 0 THEN {<<>>}
  ELSE LET shorter == SeqsUpTo(S, n - 1)
       IN shorter \cup {Append(q, x) : q \in {p \in shorter : Len(p) = n - 1}, x \in S}

UpperLetters ==
  <<"A","B","C","D","E","F","G","H","I","J","K","L","M",
    "N","O","P","Q","R","S","T","U","V","W","X","Y","Z","O^">>

LowerLetters ==
  <<"a","b","c","d","e","f","g","h","i","j","k","l","m",
    "n","o","p","q","r","s","t","u","v","w","x","y","z","o^">>

\* str.lower() on one character
LowerChar(c) ==
  IF \E i \in 1..Len(UpperLetters) : UpperLetters[i] = c
  THEN LowerLetters[CHOOSE i \in 1..Len(UpperLetters) : UpperLetters[i] = c]
  ELSE c

\* str.lower()
Lower(s) == [i \in 1..Len(s) |-> LowerChar(s[i])]

\* needle in hay (Python's substring test on str)
Contains(hay, needle) ==
  \E i \in 0..(Len(hay) - Len(needle)) :
    \A j \in 1..Len(needle) : hay[i + j] = needle[j]

\* s[:n]
Prefix(s, n) == IF Len(s) <= n THEN s ELSE SubSeq(s, 1, n)

Digits == <<"0","1","2","3","4","5","6","7","8","9">>

IsDigit(c) == \E i \in 1..10 : Digits[i] = c

DigitVal(c) == (CHOOSE i \in 1..10 : Digits[i] = c) - 1

RECURSIVE NatToText(_)
NatToText(n) ==
  IF n < 10 THEN <<Digits[n + 1]>>
  ELSE Append(NatToText(n \div 10), Digits[(n % 10) + 1])

RECURSIVE TextToNat(_)
TextToNat(s) ==
  IF s = <<>> THEN 0
  ELSE 10 * TextToNat(SubSeq(s, 1, Len(s) - 1)) + DigitVal(s[Len(s)])

Pad2(n) == IF n < 10 THEN <<"0">> \o NatToText(n) ELSE NatToText(n)

Pad4(n) ==
  IF n < 10 THEN <<"0","0","0">> \o NatToText(n)
  ELSE IF n < 100 THEN <<"0","0">> \o NatToText(n)
  ELSE IF n < 1000 THEN <<"0">> \o NatToText(n)
  ELSE NatToText(n)

\* ------------------------------------------------------------------- values
\* A cell value: None, a str, a number, or a datetime <<Y, M, D, h, m, s>>.
NoneV == [k |-> "none", t |-> <<>>, s |-> <<>>]
StrV(s) == [k |-> "str", t |-> <<>>, s |-> s]
NumV(n) == [k |-> "num", t |-> <<n>>, s |-> <<>>]
DtV(Y, M, D, h, m, s) == [k |-> "dt", t |-> <<Y, M, D, h, m, s>>, s |-> <<>>]

\* bool(value)
Truthy(v) ==
  CASE v.k = "none" -> FALSE
    [] v.k = "str" -> v.s # <<>>
    [] v.k = "num" -> v.t[1] # 0
    [] OTHER -> TRUE

\* str(value)
StrOf(v) ==
  CASE v.k = "str" -> v.s
    [] v.k = "num" -> NatToText(v.t[1])
    [] v.k = "dt" ->
         Pad4(v.t[1]) \o <<"-">> \o Pad2(v.t[2]) \o <<"-">> \o Pad2(v.t[3]) \o <<" ">>
           \o Pad2(v.t[4]) \o <<":">> \o Pad2(v.t[5]) \o <<":">> \o Pad2(v.t[6])
    [] OTHER -> <<"N","o","n","e">>

\* A cell: its value and its number format.
GeneralFormat == "General"
DateFormat == "dd/mm/yyyy"

Cell(v, f) == [value |-> v, number_format |-> f]
EmptyCell == Cell(NoneV, GeneralFormat)

\* openpyxl's Cell.is_date: a date-typed value, or a number under a date format
is_date(cell) ==
  \/ cell.value.k = "dt"
  \/ cell.value.k = "num" /\ cell.number_format = DateFormat

\* openpyxl's Cell.has_style: the cell carries a style of its own
has_style(cell) == cell.number_format # GeneralFormat

\* ------------------------------------------------------------------- sheets
\* A worksheet is its rows, row 1 being the header; every row has max_column cells.
max_row(ws) == IF Len(ws.rows) = 0 THEN 1 ELSE Len(ws.rows)

max_column(ws) == ws.max_column

\* ws.cell(row=r, column=c): a cell outside the stored range is empty
cell(ws, r, c) ==
  IF r <= Len(ws.rows) /\ c <= Len(ws.rows[r]) THEN ws.rows[r][c] ELSE EmptyCell

\* ------------------------------------------------------------- find_column
\* The scan of find_column from column col on; 0 stands for the ValueError
\* raised when no header in 1..max_col matches.
RECURSIVE find_column_from(_, _, _, _)
find_column_from(ws, keywords, max_col, col) ==
  IF col > max_col THEN 0
  ELSE LET header_cell == cell(ws, 1, col).value
       IN IF /\ Truthy(header_cell)
             /\ \E i \in 1..Len(keywords) :
                  Contains(Lower(StrOf(header_cell)), Lower(keywords[i]))
          THEN col
          ELSE find_column_from(ws, keywords, max_col, col + 1)

\* A find_column that answers the first column where it should raise.
find_column_DefaultColumn(ws, keywords, max_col) ==
  IF find_column_from(ws, keywords, max_col, 1) = 0 THEN 1
  ELSE find_column_from(ws, keywords, max_col, 1)

find_column(ws, keywords, max_col) == find_column_from(ws, keywords, max_col, 1)

\* The keyword lists of the call sites.
DateKeywords == << <<"d","a","t","e">>, <<"D","A","T","E">>, <<"D","a","t","e">> >>

HospKeywordsIndex ==
  << <<"H","O","P","I","T","A","U","X","/"," ","C","M","C">>,
     <<"h","o","s","p","i","t","a","l">>,
     <<"h","o","p","i","t","a","l">>,
     <<"h","o^","p","i","t","a","l">> >>

HospKeywordsProcess ==
  << <<"h","o^","p","i","t","a","l">>,
     <<"h","o","s","p","i","t","a","l">>,
     <<"h","o","p","i","t","a","l">>,
     <<"H","O","P","I","T","A","U","X","/"," ","C","M","C">> >>

\* A scan that writes the number 0 in the cells it creates.
Scanned_Filling(ws, keywords, max_col) ==
  LET p == find_column(ws, keywords, max_col)
      reach == IF p = 0 THEN max_col ELSE p
      width == IF reach > max_column(ws) THEN reach ELSE max_column(ws)
  IN [rows |-> [r \in 1..max_row(ws) |->
                  [c \in 1..width |->
                     IF c <= max_column(ws) THEN cell(ws, r, c)
                     ELSE Cell(NumV(0), GeneralFormat)]],
      max_column |-> width]

\* The sheet after find_column: ws.cell() creates the cells it is asked for,
\* so the sheet is as wide as the scan went.
Scanned(ws, keywords, max_col) ==
  LET p == find_column(ws, keywords, max_col)
      reach == IF p = 0 THEN max_col ELSE p
      width == IF reach > max_column(ws) THEN reach ELSE max_column(ws)
  IN [rows |-> [r \in 1..max_row(ws) |-> [c \in 1..width |-> cell(ws, r, c)]],
      max_column |-> width]

\* ------------------------------------------------------- excel_to_datetime
\* The pieces of s between the occurrences of the character c.
RECURSIVE Split(_, _)
Split(s, c) ==
  IF \A i \in 1..Len(s) : s[i] # c THEN <<s>>
  ELSE LET i == CHOOSE j \in 1..Len(s) :
                  s[j] = c /\ \A k \in 1..(j - 1) : s[k] # c
       IN <<SubSeq(s, 1, i - 1)>> \o Split(SubSeq(s, i + 1, Len(s)), c)

AllDigits(f) == \A i \in 1..Len(f) : IsDigit(f[i])

\* One or two digits whose value lies in lo..hi: the directives %m %H %M %S.
FieldIn(f, lo, hi) ==
  /\ Len(f) \in {1, 2}
  /\ AllDigits(f)
  /\ TextToNat(f) \in lo..hi

\* %d also accepts a space followed by one digit.
DayField(f) ==
  \/ FieldIn(f, 1, 31)
  \/ Len(f) = 2 /\ f[1] = " " /\ IsDigit(f[2]) /\ DigitVal(f[2]) >= 1

DayVal(f) == IF f[1] = " " THEN DigitVal(f[2]) ELSE TextToNat(f)

\* %Y: exactly four digits
YearField(f) == Len(f) = 4 /\ AllDigits(f)

IsLeap(Y) == (Y % 4 = 0 /\ Y % 100 # 0) \/ Y % 400 = 0

DaysInMonth(Y, M) ==
  IF M = 2 THEN (IF IsLeap(Y) THEN 29 ELSE 28)
  ELSE IF M \in {4, 6, 9, 11} THEN 30 ELSE 31

\* A datetime that accepts 31 days in every month.
ValidDateTime_EveryMonth31(Y, M, D, h, m, s) ==
  /\ Y >= 1
  /\ M \in 1..12
  /\ D \in 1..31
  /\ h \in 0..23 /\ m \in 0..59 /\ s \in 0..59

\* datetime(Y, M, D, h, m, s) accepts the fields
ValidDateTime(Y, M, D, h, m, s) ==
  /\ Y >= 1
  /\ M \in 1..12
  /\ D \in 1..DaysInMonth(Y, M)
  /\ h \in 0..23 /\ m \in 0..59 /\ s \in 0..59

\* strptime(text, "%d/%m/%Y"); NoneV stands for its ValueError
ParseDMY(text) ==
  LET f == Split(text, "/")
  IN IF /\ Len(f) = 3
        /\ DayField(f[1]) /\ FieldIn(f[2], 1, 12) /\ YearField(f[3])
        /\ ValidDateTime(TextToNat(f[3]), TextToNat(f[2]), DayVal(f[1]), 0, 0, 0)
     THEN DtV(TextToNat(f[3]), TextToNat(f[2]), DayVal(f[1]), 0, 0, 0)
     ELSE NoneV

\* strptime(text, "%Y-%m-%d")
ParseYMD(text) ==
  LET f == Split(text, "-")
  IN IF /\ Len(f) = 3
        /\ YearField(f[1]) /\ FieldIn(f[2], 1, 12) /\ DayField(f[3])
        /\ ValidDateTime(TextToNat(f[1]), TextToNat(f[2]), DayVal(f[3]), 0, 0, 0)
     THEN DtV(TextToNat(f[1]), TextToNat(f[2]), DayVal(f[3]), 0, 0, 0)
     ELSE NoneV

\* strptime(text, "%Y-%m-%d %H:%M:%S"): the blank of the format matches the
\* last run of blanks of the text.
ParseYMDHMS(text) ==
  LET blanks == {i \in 1..Len(text) : text[i] = " "}
  IN IF blanks = {} THEN NoneV
     ELSE LET last == CHOOSE i \in blanks : \A j \in blanks : j <= i
              first == CHOOSE i \in 1..last :
                         /\ \A j \in i..last : text[j] = " "
                         /\ (i > 1 => text[i - 1] # " ")
              d == ParseYMD(SubSeq(text, 1, first - 1))
              f == Split(SubSeq(text, last + 1, Len(text)), ":")
          IN IF /\ d # NoneV
                /\ Len(f) = 3
                /\ FieldIn(f[1], 0, 23) /\ FieldIn(f[2], 0, 59) /\ FieldIn(f[3], 0, 61)
                /\ TextToNat(f[3]) <= 59
             THEN DtV(d.t[1], d.t[2], d.t[3], TextToNat(f[1]), TextToNat(f[2]), TextToNat(f[3]))
             ELSE NoneV

\* excel_to_datetime(cell): the datetime, the number of a date-flagged cell, or None
excel_to_datetime(c) ==
  LET value == c.value
  IN IF value.k = "dt" THEN value
     ELSE IF value.k = "num" /\ is_date(c) THEN value
     ELSE IF value.k = "str"
          THEN IF ParseDMY(value.s) # NoneV THEN ParseDMY(value.s)
               ELSE IF ParseYMDHMS(value.s) # NoneV THEN ParseYMDHMS(value.s)
               ELSE ParseYMD(value.s)
     ELSE NoneV

\* ------------------------------------------------------ get_hospital_dates
\* a < b on the tuples of two datetimes (or of two numbers), from index i on
RECURSIVE TupleLess(_, _, _)
TupleLess(a, b, i) ==
  IF i > Len(a) THEN FALSE
  ELSE IF a[i] # b[i] THEN a[i] < b[i]
  ELSE TupleLess(a, b, i + 1)

\* A comparison that sorts from the latest to the earliest.
ValueLeq_Descending(x, y) == x = y \/ (x.k = y.k /\ TupleLess(y.t, x.t, 1))

\* x <= y as sorted() compares two values of the same type
ValueLeq(x, y) == x = y \/ (x.k = y.k /\ TupleLess(x.t, y.t, 1))

\* sorted(list(S))
RECURSIVE SortedList(_)
SortedList(S) ==
  IF S = {} THEN <<>>
  ELSE LET m == CHOOSE x \in S : \A y \in S : ValueLeq(x, y)
       IN <<m>> \o SortedList(S \ {m})

\* The loop of get_hospital_dates over the rows r..max_row: the truthy results
\* of excel_to_datetime on the rows whose hospital cell equals hosp_value.
RECURSIVE CollectDates(_, _, _, _, _)
CollectDates(ws, hosp_value, date_col_idx, hosp_col_idx, r) ==
  IF r > max_row(ws) THEN <<>>
  ELSE LET datetime_obj == excel_to_datetime(cell(ws, r, date_col_idx))
           rest == CollectDates(ws, hosp_value, date_col_idx, hosp_col_idx, r + 1)
       IN IF cell(ws, r, hosp_col_idx).value = hosp_value /\ Truthy(datetime_obj)
          THEN <<datetime_obj>> \o rest
          ELSE rest

\* What a call gives: the value returned, or the class of the exception raised.
Returned(v) == [raised |-> "", value |-> v]
Raised(exc) == [raised |-> exc, value |-> <<>>]

\* An index builder that lets the ValueError of find_column through.
get_hospital_dates_Propagating(ws, hosp_value) ==
  LET date_col_idx == find_column(ws, DateKeywords, DefaultMaxCol)
      hosp_col_idx == find_column(ws, HospKeywordsIndex, DefaultMaxCol)
  IN IF date_col_idx = 0 \/ hosp_col_idx = 0 THEN Raised("ValueError")
     ELSE Returned(SortedList(Range(CollectDates(ws, hosp_value, date_col_idx, hosp_col_idx, 2))))

\* get_hospital_dates(ws, hosp_value): the ValueError of find_column is caught
\* and answered by the empty list; sorted() raises TypeError on a list that
\* mixes datetimes and numbers.
get_hospital_dates(ws, hosp_value) ==
  LET date_col_idx == find_column(ws, DateKeywords, DefaultMaxCol)
      hosp_col_idx == find_column(ws, HospKeywordsIndex, DefaultMaxCol)
  IN IF date_col_idx = 0 \/ hosp_col_idx = 0 THEN Returned(<<>>)
     ELSE LET dates == Range(CollectDates(ws, hosp_value, date_col_idx, hosp_col_idx, 2))
          IN IF \E x \in dates, y \in dates : x.k # y.k
             THEN Raised("TypeError")
             ELSE Returned(SortedList(dates))

\* The sheet after get_hospital_dates: the scan for the hospital column takes
\* place if the date column was found.
ScannedForIndex(ws) ==
  IF find_column(ws, DateKeywords, DefaultMaxCol) = 0
  THEN Scanned(ws, DateKeywords, DefaultMaxCol)
  ELSE Scanned(ws, HospKeywordsIndex, DefaultMaxCol)

\* ------------------------------------------------------ find_missing_dates
\* A membership test that compares the calendar days only.
IsMissing_SameDay(principal_dates, date_obj) ==
  \A j \in 1..Len(principal_dates) :
    SubSeq(principal_dates[j].t, 1, 3) # SubSeq(date_obj.t, 1, 3)

\* date_obj not in principal_dates
IsMissing(principal_dates, date_obj) == date_obj \notin Range(principal_dates)

\* A delta that ignores the principal dates.
find_missing_dates_All(source_dates, principal_dates) == source_dates

find_missing_dates(source_dates, principal_dates) ==
  SelectSeq(source_dates, LAMBDA date_obj : IsMissing(principal_dates, date_obj))

\* ----------------------------------------------------------- process_files
\* The first truthy value of column col in the rows r..max_row, NoneV if none.
RECURSIVE FirstHospital(_, _, _)
FirstHospital(ws, col, r) ==
  IF r > max_row(ws) THEN NoneV
  ELSE IF Truthy(cell(ws, r, col).value) THEN cell(ws, r, col).value
  ELSE FirstHospital(ws, col, r + 1)

\* Characters openpyxl refuses in a sheet title (ValueError).
InvalidTitleChars == {"\\", "*", "?", ":", "/", "[", "]"}

\* The exception of ws_output.title = f"NouvLignes_{name[:10]}", "" if none:
\* slicing a value that is no str is a TypeError, a refused title a ValueError.
TitleError(name) ==
  IF name.k # "str" THEN "TypeError"
  ELSE IF Range(Prefix(name.s, TitleSlice)) \cap InvalidTitleChars # {} THEN "ValueError"
  ELSE ""

\* The copy of one source cell: its value, and its number format if it has one.
CopyCell(source_cell) ==
  Cell(source_cell.value,
       IF has_style(source_cell) /\ source_cell.number_format # ""
       THEN source_cell.number_format ELSE GeneralFormat)

\* A header copy that stops after the first column.
HeaderCopy_FirstColumn(header_source_sheet) ==
  << Cell(cell(header_source_sheet, 1, 1).value, GeneralFormat) >>

\* Row 1 of the output: the values of the header of header_source_sheet.
HeaderCopy(header_source_sheet) ==
  [c \in 1..max_column(header_source_sheet) |->
     Cell(cell(header_source_sheet, 1, c).value, GeneralFormat)]

\* A projection that forgets the hospital of the row.
RowSelected_AnyHospital(ws, r_src, hosp_col, date_col, hosp_name, missing) ==
  excel_to_datetime(cell(ws, r_src, date_col)) \in Range(missing)

\* The row of the source the projection selects?
RowSelected(ws, r_src, hosp_col, date_col, hosp_name, missing) ==
  /\ cell(ws, r_src, hosp_col).value = hosp_name
  /\ excel_to_datetime(cell(ws, r_src, date_col)) \in Range(missing)

\* The projection loop over the rows r_src..max_row: the copies of the
\* selected rows over the columns 1..max_cols, in the order of the source.
RECURSIVE ProjectRows(_, _, _, _, _, _, _)
ProjectRows(ws, r_src, hosp_col, date_col, hosp_name, missing, max_cols) ==
  IF r_src > max_row(ws) THEN <<>>
  ELSE LET rest == ProjectRows(ws, r_src + 1, hosp_col, date_col, hosp_name, missing, max_cols)
       IN IF RowSelected(ws, r_src, hosp_col, date_col, hosp_name, missing)
          THEN << [c \in 1..max_cols |-> CopyCell(cell(ws, r_src, c))] >> \o rest
          ELSE rest

\* The handlers of a process_files that lacks its last clause, "except Exception".
Handler_NoBroadClause(exc) ==
  IF exc = "FileNotFoundError" THEN 1
  ELSE IF exc = "ValueError" THEN 2
  ELSE 0

\* The except clause that catches an exception class, 0 if none does:
\* 1 FileNotFoundError, 2 ValueError, 3 Exception.
Handler(exc) ==
  IF exc = "FileNotFoundError" THEN 1
  ELSE IF exc = "ValueError" THEN 2
  ELSE 3

\* A save whose test is inverted.
ShouldSave_Inverted(count) == count <= 0

\* Is the output workbook saved after the projection?
ShouldSave(count) == count > 0

\* ----------------------------------------------------------------- the data
\* The texts of the workbooks of the model.
T_Hopital == <<"H","o^","p","i","t","a","l">>
T_Date == <<"D","a","t","e">>
T_Montant == <<"M","o","n","t","a","n","t">>
T_DATE == <<"D","A","T","E">>
T_HopitauxCmc == <<"H","O","P","I","T","A","U","X","/"," ","C","M","C">>
T_Nom == <<"N","o","m">>
T_Jour == <<"J","o","u","r">>
T_Numero == <<"N","u","m","e","r","o">>
T_DateHosp == <<"D","a","t","e"," ","d","'","h","o","s","p","i","t","a","l","i","s","a","t","i","o","n">>
T_Updated == <<"U","p","d","a","t","e","d">>
T_HOPITAL == <<"H","O^","P","I","T","A","L">>
T_HospA == <<"H","o","s","p","-","A">>
T_HospB == <<"H","o","s","p","-","B">>
T_hospa == <<"h","o","s","p","-","a">>
T_Cmc1 == <<"C","M","C","/","1">>
T_03_01_2024 == <<"0","3","/","0","1","/","2","0","2","4">>
T_31_02_2024 == <<"3","1","/","0","2","/","2","0","2","4">>
T_2024_01_03_123000 == <<"2","0","2","4","-","0","1","-","0","3"," ","1","2",":","3","0",":","0","0">>
T_2024_01_03 == <<"2","0","2","4","-","0","1","-","0","3">>
T_2024_02_30 == <<"2","0","2","4","-","0","2","-","3","0">>
T_3_1_2024 == <<"3","/","1","/","2","0","2","4">>
T_03_01_2024_dashes == <<"0","3","-","0","1","-","2","0","2","4">>
T_abc == <<"a","b","c">>
T_29_02_2024 == <<"2","9","/","0","2","/","2","0","2","4">>
T_29_02_2023 == <<"2","9","/","0","2","/","2","0","2","3">>
T_2024_01_03_T == <<"2","0","2","4","-","0","1","-","0","3","T","1","2",":","3","0",":","0","0">>
T_zero == <<"0">>
T_nom == <<"n","o","m">>
T_date == <<"d","a","t","e">>

AmountFormat == "#,##0.00"

TextCell(t) == Cell(StrV(t), GeneralFormat)
DateCell(Y, M, D, h, m, s) == Cell(DtV(Y, M, D, h, m, s), DateFormat)
AmountCell == Cell(NumV(100), AmountFormat)

\* What load_workbook gives for a date-formatted number is a datetime, so the
\* cells of a loaded sheet are empty, text, plain numbers or datetimes.
HospA == TextCell(T_HospA)
HospB == TextCell(T_HospB)
HospLower == TextCell(T_hospa)
HospSlash == TextCell(T_Cmc1)
HospCode == Cell(NumV(12), GeneralFormat)
HospZero == Cell(NumV(0), GeneralFormat)

Jan1 == DateCell(2024, 1, 1, 0, 0, 0)
Jan3 == DateCell(2024, 1, 3, 0, 0, 0)
Jan3Noon == DateCell(2024, 1, 3, 12, 30, 0)
Jan3Text == TextCell(T_03_01_2024)
Feb31Text == TextCell(T_31_02_2024)

\* A layout: the header labels and the columns that hold the hospital and
\* the date of a data row.
Layout(labels, hosp, date) == [labels |-> labels, hosp |-> hosp, date |-> date]

LayoutPlain == Layout(<<T_Hopital, T_Date, T_Montant>>, 1, 2)
LayoutUpper == Layout(<<T_DATE, T_HopitauxCmc>>, 2, 1)
LayoutNoHosp == Layout(<<T_Nom, T_Date, T_Montant>>, 1, 2)
LayoutNoDate == Layout(<<T_Hopital, T_Jour, T_Montant>>, 1, 2)
LayoutDateHosp == Layout(<<T_DateHosp, T_Hopital, T_Montant>>, 2, 1)
LayoutWide == Layout(<<T_Numero, T_HOPITAL, T_Updated, T_Montant>>, 2, 3)

HeaderRow(layout) == [c \in 1..Len(layout.labels) |-> TextCell(layout.labels[c])]

DataRow(layout, pair) ==
  [c \in 1..Len(layout.labels) |->
     IF c = layout.hosp THEN pair[1]
     ELSE IF c = layout.date THEN pair[2]
     ELSE AmountCell]

\* The sheet with the header of the layout and one data row per pair
\* <<hospital cell, date cell>>.
Sheet(layout, pairs) ==
  [rows |-> <<HeaderRow(layout)>> \o [i \in 1..Len(pairs) |-> DataRow(layout, pairs[i])],
   max_column |-> Len(layout.labels)]

NoSheet == [rows |-> <<>>, max_column |-> 0]

File(status, ws) == [status |-> status, ws |-> ws]

SourceLayouts == {LayoutPlain, LayoutUpper, LayoutNoHosp, LayoutNoDate, LayoutDateHosp}

SourcePairs ==
  { <<HospA, Jan1>>, <<HospA, Jan3>>, <<HospA, Jan3Text>>, <<HospA, Feb31Text>>,
    <<HospB, Jan3>>, <<EmptyCell, Jan1>>, <<HospCode, Jan1>>, <<HospZero, Jan1>> }

ExtraPairs == { <<HospSlash, Jan3>>, <<HospLower, Jan3Noon>> }

\* The sheets of the source files: every sequence of at most MaxRows data rows
\* under the plain header, and the one-row sheets under every header.
SourceSheets ==
  {Sheet(LayoutPlain, ps) : ps \in SeqsUpTo(SourcePairs, MaxRows)}
    \cup {Sheet(l, <<p>>) : l \in SourceLayouts, p \in SourcePairs \cup ExtraPairs}

\* What load_workbook(source_filepath) can meet.
SourceFiles ==
  {File("missing", NoSheet), File("corrupt", NoSheet)}
    \cup {File("ok", ws) : ws \in SourceSheets}

\* The principal workbooks of the model.
PrincipalFiles ==
  { File("missing", NoSheet),
    File("corrupt", NoSheet),
    File("ok", Sheet(LayoutPlain, <<>>)),
    File("ok", Sheet(LayoutPlain, << <<HospA, Jan1>>, <<HospA, Jan3Text>> >>)),
    File("ok", Sheet(LayoutPlain, << <<HospB, Jan3>>, <<HospA, Jan1>>, <<HospA, Jan1>> >>)),
    File("ok", Sheet(LayoutNoDate, << <<HospA, Jan1>> >>)),
    File("ok", Sheet(LayoutWide, << <<HospA, Jan3Noon>>, <<HospLower, Jan3>> >>)),
    File("ok", Sheet(LayoutUpper, << <<HospCode, Jan1>>, <<HospSlash, Jan3>> >>)) }

\* ---------------------------------------------------------------- the state
VARIABLES
  principal_file,           \* the file PRINCIPAL on disk
  nfiles,                   \* len(source_excel_files)
  main_pc,                  \* where main() is
  output_file_index,        \* main's counter, the number in the output name
  processed,                \* the calls of process_files that have returned
  written,                  \* the numbers of the output files saved
  failed,                   \* the numbers of the files that ended in an except clause
  pc,                       \* the stage of the running process_files
  source_file,              \* the source file of the running process_files
  ws_principal,
  ws_source,
  hosp_col_source_idx,
  reference_hospital_name,
  source_hospital_dates,
  principal_hospital_dates,
  missing_dates_list,
  ws_output,
  lines_added_count,
  error,                    \* the class of the exception raised, "" if none
  call,                     \* a function applied on its own, and its arguments
  ret                       \* what it returned

main_vars ==
  <<principal_file, nfiles, main_pc, output_file_index, processed, written, failed>>

local_vars ==
  <<source_file, ws_principal, ws_source, hosp_col_source_idx, reference_hospital_name,
    source_hospital_dates, principal_hospital_dates, missing_dates_list, ws_output,
    lines_added_count, error>>

unit_vars == <<call, ret>>

vars == <<main_vars, pc, local_vars, unit_vars>>

NoCall == [fn |-> "none"]
NoRet == [done |-> FALSE]

NoFile == File("none", NoSheet)

\* The locals of process_files before its first statement.
LocalsUnset ==
  /\ source_file = NoFile
  /\ ws_principal = NoSheet
  /\ ws_source = NoSheet
  /\ hosp_col_source_idx = 0
  /\ reference_hospital_name = NoneV
  /\ source_hospital_dates = <<>>
  /\ principal_hospital_dates = <<>>
  /\ missing_dates_list = <<>>
  /\ ws_output = NoSheet
  /\ lines_added_count = 0
  /\ error = ""

\* The locals are gone when process_files returns.
ResetLocals ==
  /\ source_file' = NoFile
  /\ ws_principal' = NoSheet
  /\ ws_source' = NoSheet
  /\ hosp_col_source_idx' = 0
  /\ reference_hospital_name' = NoneV
  /\ source_hospital_dates' = <<>>
  /\ principal_hospital_dates' = <<>>
  /\ missing_dates_list' = <<>>
  /\ ws_output' = NoSheet
  /\ lines_added_count' = 0
  /\ error' = ""

Terminal == {"DONE", "DONE_NO_OP", "DONE_SKIPPED", "DONE_WITH_ERROR"}

Init ==
  /\ principal_file \in PrincipalFiles
  /\ nfiles \in 0..MaxFiles
  /\ main_pc = "start"
  /\ output_file_index = 0
  /\ processed = 0
  /\ written = {}
  /\ failed = {}
  /\ pc = "idle"
  /\ LocalsUnset
  /\ call = NoCall
  /\ ret = NoRet

\* ------------------------------------------------------------------- main()
\* main() up to its loop: it returns at once without the principal file or
\* without any source file.
MainStart ==
  /\ main_pc = "start"
  /\ main_pc' = IF principal_file.status = "missing" THEN "no_principal"
                ELSE IF nfiles = 0 THEN "no_sources"
                ELSE "loop"
  /\ output_file_index' = 1
  /\ UNCHANGED <<principal_file, nfiles, processed, written, failed, pc, local_vars, unit_vars>>

\* One turn of the loop: process_files is called for the next source file.
CallProcessFiles ==
  /\ main_pc = "loop"
  /\ pc = "idle"
  /\ processed < nfiles
  /\ pc' = "START"
  /\ UNCHANGED <<main_vars, local_vars, unit_vars>>

\* An exception of class exc in the try block: an except clause of
\* process_files catches it, or it leaves process_files and main().
Raise(exc) ==
  /\ error' = exc
  /\ IF Handler(exc) > 0
     THEN pc' = "DONE_WITH_ERROR" /\ main_pc' = main_pc
     ELSE pc' = "idle" /\ main_pc' = "crashed"

\* load_workbook of the principal, then of the source file f.
LoadFile(f) ==
  /\ pc = "START"
  /\ source_file' = f
  /\ IF principal_file.status # "ok"
     THEN /\ Raise(IF principal_file.status = "missing"
                   THEN "FileNotFoundError" ELSE "BadZipFile")
          /\ UNCHANGED <<ws_principal, ws_source>>
     ELSE IF f.status # "ok"
     THEN /\ Raise(IF f.status = "missing" THEN "FileNotFoundError" ELSE "BadZipFile")
          /\ ws_principal' = principal_file.ws
          /\ UNCHANGED ws_source
     ELSE /\ ws_principal' = principal_file.ws
          /\ ws_source' = f.ws
          /\ pc' = "LOAD"
          /\ UNCHANGED <<main_pc, error>>
  /\ UNCHANGED <<principal_file, nfiles, output_file_index, processed, written, failed,
                 hosp_col_source_idx, reference_hospital_name, source_hospital_dates,
                 principal_hospital_dates, missing_dates_list, ws_output,
                 lines_added_count, unit_vars>>

\* The source file of a call is any file of the directory.
Load == \E f \in SourceFiles : LoadFile(f)

\* The hospital column of the source and its first non-empty value.
ResolveReferenceCategory ==
  /\ pc = "LOAD"
  /\ LET col == find_column(ws_source, HospKeywordsProcess, DefaultMaxCol)
         name == FirstHospital(ws_source, col, 2)
     IN IF col = 0
        THEN /\ Raise("ValueError")
             /\ UNCHANGED <<hosp_col_source_idx, reference_hospital_name>>
        ELSE /\ hosp_col_source_idx' = col
             /\ reference_hospital_name' = name
             /\ pc' = IF Truthy(name) THEN "RESOLVE_REFERENCE_CATEGORY" ELSE "DONE_SKIPPED"
             /\ UNCHANGED <<main_pc, error>>
  /\ ws_source' = Scanned(ws_source, HospKeywordsProcess, DefaultMaxCol)
  /\ UNCHANGED <<principal_file, nfiles, output_file_index, processed, written, failed,
                 source_file, ws_principal, source_hospital_dates,
                 principal_hospital_dates, missing_dates_list, ws_output,
                 lines_added_count, unit_vars>>

\* The two calls of get_hospital_dates; an exception of either leaves the try block.
BuildIndexes ==
  /\ pc = "RESOLVE_REFERENCE_CATEGORY"
  /\ LET src == get_hospital_dates(ws_source, reference_hospital_name)
         prin == get_hospital_dates(ws_principal, reference_hospital_name)
     IN IF src.raised # ""
        THEN /\ Raise(src.raised)
             /\ UNCHANGED <<source_hospital_dates, principal_hospital_dates, ws_principal>>
        ELSE IF prin.raised # ""
        THEN /\ Raise(prin.raised)
             /\ source_hospital_dates' = src.value
             /\ ws_principal' = ScannedForIndex(ws_principal)
             /\ UNCHANGED principal_hospital_dates
        ELSE /\ source_hospital_dates' = src.value
             /\ principal_hospital_dates' = prin.value
             /\ ws_principal' = ScannedForIndex(ws_principal)
             /\ pc' = "BUILD_INDEXES"
             /\ UNCHANGED <<main_pc, error>>
  /\ ws_source' = ScannedForIndex(ws_source)
  /\ UNCHANGED <<principal_file, nfiles, output_file_index, processed, written, failed,
                 source_file, hosp_col_source_idx,
                 reference_hospital_name, missing_dates_list, ws_output,
                 lines_added_count, unit_vars>>

ComputeDelta ==
  /\ pc = "BUILD_INDEXES"
  /\ missing_dates_list' = find_missing_dates(source_hospital_dates, principal_hospital_dates)
  /\ pc' = "COMPUTE_DELTA"
  /\ UNCHANGED <<main_vars, source_file, ws_principal, ws_source, hosp_col_source_idx,
                 reference_hospital_name, source_hospital_dates, principal_hospital_dates,
                 ws_output, lines_added_count, error, unit_vars>>

\* A test of the delta that never finds it empty.
NoMissingDates_Never(missing) == FALSE

\* "if not missing_dates_list"
NoMissingDates(missing) == missing = <<>>

\* "if not missing_dates_list: return"
DeltaEmpty ==
  /\ pc = "COMPUTE_DELTA"
  /\ NoMissingDates(missing_dates_list)
  /\ pc' = "DONE_NO_OP"
  /\ UNCHANGED <<main_vars, local_vars, unit_vars>>

\* The date column of the source, the new workbook and its title, the header
\* and the selected rows.
Project ==
  /\ pc = "COMPUTE_DELTA"
  /\ ~NoMissingDates(missing_dates_list)
  /\ LET date_col_source_idx == find_column(ws_source, DateKeywords, DefaultMaxCol)
         max_cols_in_source == max_column(ws_source)
         body == ProjectRows(ws_source, 2, hosp_col_source_idx, date_col_source_idx,
                             reference_hospital_name, missing_dates_list, max_cols_in_source)
     IN IF date_col_source_idx = 0
        THEN Raise("ValueError") /\ UNCHANGED <<ws_output, lines_added_count>>
        ELSE IF TitleError(reference_hospital_name) # ""
        THEN Raise(TitleError(reference_hospital_name))
             /\ UNCHANGED <<ws_output, lines_added_count>>
        ELSE /\ ws_output' = [rows |-> <<HeaderCopy(ws_principal)>> \o body,
                              max_column |-> IF body = <<>> \/ max_cols_in_source <= max_column(ws_principal)
                                             THEN max_column(ws_principal)
                                             ELSE max_cols_in_source]
             /\ lines_added_count' = Len(body)
             /\ pc' = "PROJECT_AND_SAVE"
             /\ UNCHANGED <<main_pc, error>>
  /\ UNCHANGED <<principal_file, nfiles, output_file_index, processed, written, failed,
                 source_file, ws_principal, ws_source, hosp_col_source_idx,
                 reference_hospital_name, source_hospital_dates, principal_hospital_dates,
                 missing_dates_list, unit_vars>>

\* "if lines_added_count > 0: wb_output.save(output_filepath)"
Save ==
  /\ pc = "PROJECT_AND_SAVE"
  /\ written' = IF ShouldSave(lines_added_count)
                THEN written \cup {output_file_index} ELSE written
  /\ pc' = "DONE"
  /\ UNCHANGED <<principal_file, nfiles, main_pc, output_file_index, processed, failed,
                 local_vars, unit_vars>>

\* A counter that advances only past a file whose output was written.
NextIndex_OnlyWritten(index, outcome) == IF outcome = "DONE" THEN index + 1 ELSE index

\* "output_file_index += 1" after a call of process_files that ended in
\* outcome: the statement follows the call whatever it did.
NextIndex(index, outcome) == index + 1

\* process_files returns: its locals are gone and main advances its counter.
ReturnToMain ==
  /\ pc \in Terminal
  /\ pc' = "idle"
  /\ output_file_index' = NextIndex(output_file_index, pc)
  /\ processed' = processed + 1
  /\ failed' = IF pc = "DONE_WITH_ERROR" THEN failed \cup {output_file_index} ELSE failed
  /\ ResetLocals
  /\ UNCHANGED <<principal_file, nfiles, main_pc, written>>

Return == ReturnToMain /\ UNCHANGED unit_vars

\* The loop is over: the closing message is printed.
LoopEnd ==
  /\ main_pc = "loop"
  /\ pc = "idle"
  /\ processed >= nfiles
  /\ main_pc' = "done"
  /\ UNCHANGED <<principal_file, nfiles, output_file_index, processed, written, failed, pc,
                 local_vars, unit_vars>>

Next ==
  \/ MainStart
  \/ CallProcessFiles
  \/ Load
  \/ ResolveReferenceCategory
  \/ BuildIndexes
  \/ ComputeDelta
  \/ DeltaEmpty
  \/ Project
  \/ Save
  \/ Return
  \/ LoopEnd

Spec == Init /\ [][Next]_vars

\* ------------------------------------------------------------ the run, fair
PcValues == {"idle"} \cup Terminal \cup
  {"START", "LOAD", "RESOLVE_REFERENCE_CATEGORY", "BUILD_INDEXES", "COMPUTE_DELTA",
   "PROJECT_AND_SAVE"}

MainPcValues == {"start", "loop", "done", "no_principal", "no_sources", "crashed"}

\* Control moves: main() has not returned and pc or main_pc changes, as they
\* do in every step of Next.
Advance ==
  /\ main_pc \in {"start", "loop"}
  /\ pc' \in PcValues
  /\ main_pc' \in MainPcValues

\* The statements of main and of process_files follow one another without
\* waiting for anything: until main returns, control moves on.
FairSpec == Init /\ [][Next]_vars /\ WF_<<pc, main_pc>>(Advance)

\* ------------------------------------------------------- the same file twice
\* process_files is called twice for one source file; between the two calls
\* the dates the first call found missing may be added to the principal file.
\* call holds the source file, ret what the first call did.

\* A row of the principal sheet ws for a hospital and a date.
ReferenceRow(ws, hospital, d) ==
  [c \in 1..max_column(ws) |->
     IF c = find_column(ws, HospKeywordsIndex, DefaultMaxCol) THEN Cell(hospital, GeneralFormat)
     ELSE IF c = find_column(ws, DateKeywords, DefaultMaxCol) THEN Cell(d, DateFormat)
     ELSE AmountCell]

RerunInit ==
  /\ principal_file \in PrincipalFiles
  /\ nfiles = 2
  /\ main_pc = "start"
  /\ output_file_index = 0
  /\ processed = 0
  /\ written = {} /\ failed = {}
  /\ pc = "idle"
  /\ LocalsUnset
  /\ call \in {[fn |-> "process_files", source |-> f] : f \in SourceFiles}
  /\ ret = [done |-> FALSE, updated |-> FALSE, outcome |-> "", hospital |-> NoneV,
            delta |-> <<>>]

RerunLoad == LoadFile(call.source)

\* The return of a call; what the first call did is kept.
RerunReturn ==
  /\ ReturnToMain
  /\ ret' = IF processed = 0
            THEN [ret EXCEPT !.done = TRUE, !.outcome = pc,
                             !.hospital = reference_hospital_name,
                             !.delta = missing_dates_list]
            ELSE ret
  /\ UNCHANGED call

\* Between the two calls the principal file receives one row per date the
\* first call found missing, for the hospital of that call.
UpdateReference ==
  /\ main_pc = "loop" /\ pc = "idle" /\ processed = 1
  /\ ~ret.updated
  /\ ret.delta # <<>>
  /\ principal_file.status = "ok"
  /\ LET ws == principal_file.ws
         hosp_col == find_column(ws, HospKeywordsIndex, DefaultMaxCol)
         date_col == find_column(ws, DateKeywords, DefaultMaxCol)
     IN /\ hosp_col # 0 /\ date_col # 0 /\ hosp_col # date_col
        /\ principal_file' =
             File("ok", [rows |-> ws.rows \o [i \in 1..Len(ret.delta) |->
                                               ReferenceRow(ws, ret.hospital, ret.delta[i])],
                         max_column |-> max_column(ws)])
  /\ ret' = [ret EXCEPT !.updated = TRUE]
  /\ UNCHANGED <<nfiles, main_pc, output_file_index, processed, written, failed, pc,
                 local_vars, call>>

RerunNext ==
  \/ MainStart
  \/ CallProcessFiles
  \/ RerunLoad
  \/ ResolveReferenceCategory
  \/ BuildIndexes
  \/ ComputeDelta
  \/ DeltaEmpty
  \/ Project
  \/ Save
  \/ RerunReturn
  \/ UpdateReference
  \/ LoopEnd

RerunSpec == RerunInit /\ [][RerunNext]_vars

\* ------------------------------------------------- the functions on their own
\* The four utility functions and the projection loop, each applied once to
\* arguments drawn from the sets below; main() is not started.

\* Header cells: three labels, the number 0, the empty text.
HeaderLabels ==
  { TextCell(T_Date), TextCell(T_HOPITAL), TextCell(T_Nom),
    Cell(NumV(0), GeneralFormat), TextCell(<<>>) }

BlankHeader == [c \in 1..MaxHeaderLen |-> EmptyCell]

\* The header rows of MaxHeaderLen cells of which at most two are not blank.
Headers ==
  {BlankHeader}
    \cup {[BlankHeader EXCEPT ![i] = a] : i \in 1..MaxHeaderLen, a \in HeaderLabels}
    \cup UNION {{[BlankHeader EXCEPT ![i] = a, ![j] = b] : a \in HeaderLabels, b \in HeaderLabels}
                  : i \in 1..MaxHeaderLen, j \in 2..MaxHeaderLen}

HeaderSheets == {[rows |-> <<h>>, max_column |-> MaxHeaderLen] : h \in Headers}

\* The keyword lists of the program, and lists that name two labels in both orders.
KeywordLists ==
  { DateKeywords, HospKeywordsIndex, HospKeywordsProcess,
    <<T_zero>>, <<T_nom, T_date>>, <<T_date, T_nom>> }

\* The values of max_col: a short scan and the default one.
MaxCols == {3, DefaultMaxCol}

\* The cells given to excel_to_datetime.
DateCells ==
  { Jan1, Jan3Noon, Jan3Text, Feb31Text, EmptyCell, AmountCell,
    Cell(NumV(45294), DateFormat), Cell(NumV(0), DateFormat), Cell(NumV(45294), GeneralFormat),
    TextCell(T_2024_01_03_123000), TextCell(T_2024_01_03), TextCell(T_2024_02_30),
    TextCell(T_3_1_2024), TextCell(T_03_01_2024_dashes), TextCell(T_abc),
    TextCell(T_29_02_2024), TextCell(T_29_02_2023), TextCell(T_2024_01_03_T),
    TextCell(<<>>), Cell(StrV(T_03_01_2024), DateFormat) }

\* The datetimes of the lists given to find_missing_dates.
DateValues == {Jan1.value, Jan3.value, Jan3Noon.value}

IndexPairs ==
  { <<HospA, Jan3>>, <<HospA, Jan3Noon>>, <<HospA, Jan1>>, <<HospLower, Jan1>>,
    <<HospA, Feb31Text>> }

\* The sheets given to get_hospital_dates: those of the source files, those of
\* the principal files, and sheets whose rows differ in time of day and in case.
IndexSheets ==
  SourceSheets
    \cup {f.ws : f \in {g \in PrincipalFiles : g.status = "ok"}}
    \cup {Sheet(LayoutDateHosp, ps) : ps \in SeqsUpTo(IndexPairs, MaxRows)}

\* The hospital values asked for, one of which is in no sheet.
HospValues == {HospA.value, HospB.value, HospLower.value, HospCode.value, StrV(T_Nom)}

UnitInit ==
  /\ principal_file = NoFile
  /\ nfiles = 0
  /\ main_pc = "start"
  /\ output_file_index = 0
  /\ processed = 0
  /\ written = {} /\ failed = {}
  /\ pc = "idle"
  /\ LocalsUnset
  /\ call = NoCall
  /\ ret = NoRet

\* find_column(ws, keywords, max_col)
Apply_find_column ==
  /\ call = NoCall
  /\ \E ws \in HeaderSheets, keywords \in KeywordLists, max_col \in MaxCols :
       LET col == find_column(ws, keywords, max_col)
       IN /\ call' = [fn |-> "find_column", ws |-> ws, keywords |-> keywords,
                      max_col |-> max_col]
          /\ ret' = [done |-> TRUE, raised |-> IF col = 0 THEN "ValueError" ELSE "",
                     value |-> col, calls |-> 1, first |-> col,
                     ws |-> Scanned(ws, keywords, max_col)]
  /\ UNCHANGED <<main_vars, pc, local_vars>>

\* find_column again, on the sheet the first call left
Repeat_find_column ==
  /\ call # NoCall
  /\ call.fn = "find_column"
  /\ ret.calls = 1
  /\ LET col == find_column(ret.ws, call.keywords, call.max_col)
     IN ret' = [done |-> TRUE, raised |-> IF col = 0 THEN "ValueError" ELSE "",
                value |-> col, calls |-> 2, first |-> ret.first,
                ws |-> Scanned(ret.ws, call.keywords, call.max_col)]
  /\ UNCHANGED <<call, main_vars, pc, local_vars>>

\* excel_to_datetime(cell)
Apply_excel_to_datetime ==
  /\ call = NoCall
  /\ \E c \in DateCells :
       /\ call' = [fn |-> "excel_to_datetime", cell |-> c]
       /\ ret' = [done |-> TRUE, raised |-> "", value |-> excel_to_datetime(c)]
  /\ UNCHANGED <<main_vars, pc, local_vars>>

\* get_hospital_dates(ws, hosp_value)
Apply_get_hospital_dates ==
  /\ call = NoCall
  /\ \E ws \in IndexSheets, hosp_value \in HospValues :
       /\ call' = [fn |-> "get_hospital_dates", ws |-> ws, hosp_value |-> hosp_value]
       /\ ret' = [done |-> TRUE] @@ get_hospital_dates(ws, hosp_value)
  /\ UNCHANGED <<main_vars, pc, local_vars>>

\* find_missing_dates(source_dates, principal_dates)
Apply_find_missing_dates ==
  /\ call = NoCall
  /\ \E source_dates \in SeqsUpTo(DateValues, MaxSeqLen),
        principal_dates \in SeqsUpTo(DateValues, MaxSeqLen) :
       /\ call' = [fn |-> "find_missing_dates", source_dates |-> source_dates,
                   principal_dates |-> principal_dates]
       /\ ret' = [done |-> TRUE, raised |-> "",
                  value |-> find_missing_dates(source_dates, principal_dates)]
  /\ UNCHANGED <<main_vars, pc, local_vars>>

\* The projection loop of process_files on a source sheet whose two columns
\* are found, for the dates of one hospital that an empty principal index lacks.
Apply_projection ==
  /\ call = NoCall
  /\ \E ws \in IndexSheets, hosp_name \in HospValues :
       LET hosp_col == find_column(ws, HospKeywordsProcess, DefaultMaxCol)
           date_col == find_column(ws, DateKeywords, DefaultMaxCol)
           index == get_hospital_dates(ws, hosp_name)
           missing == find_missing_dates(index.value, <<>>)
       IN /\ hosp_col # 0 /\ date_col # 0
          /\ index.raised = ""
          /\ call' = [fn |-> "projection", ws |-> ws, hosp_name |-> hosp_name,
                      missing |-> missing]
          /\ ret' = [done |-> TRUE, raised |-> "",
                     value |-> ProjectRows(ws, 2, hosp_col, date_col, hosp_name,
                                           missing, max_column(ws))]
  /\ UNCHANGED <<main_vars, pc, local_vars>>

UnitNext ==
  \/ Apply_find_column
  \/ Repeat_find_column
  \/ Apply_excel_to_datetime
  \/ Apply_get_hospital_dates
  \/ Apply_find_missing_dates
  \/ Apply_projection

UnitSpec == UnitInit /\ [][UnitNext]_vars

\* =================================================================== claims
\* What the claims speak of, stated without the code above.

\* The header at column c is non-blank and its lower-cased text contains one
\* of the lower-cased keywords.
HeaderMatches(ws, c, keywords) ==
  LET v == cell(ws, 1, c).value
  IN /\ v.k # "none"
     /\ v # StrV(<<>>)
     /\ \E kw \in Range(keywords) : Contains(Lower(StrOf(v)), Lower(kw))

\* The columns among 1..max_col whose header matches.
MatchingColumns(ws, keywords, max_col) ==
  {c \in 1..max_col : HeaderMatches(ws, c, keywords)}

Unresolved(ws, keywords) == MatchingColumns(ws, keywords, DefaultMaxCol) = {}

\* The least matching column (of a sheet that has one).
Resolved(ws, keywords) ==
  CHOOSE c \in MatchingColumns(ws, keywords, DefaultMaxCol) :
    \A d \in MatchingColumns(ws, keywords, DefaultMaxCol) : c <= d

DataRows(ws) == 2..max_row(ws)

\* The i-th least element of a set of numbers.
Nth(S, i) == CHOOSE r \in S : Cardinality({q \in S : q < r}) = i - 1

\* The rows of the output under its header.
Body(out) == SubSeq(out.rows, 2, Len(out.rows))

\* The body is the rows `rows` of the sheet ws, in ascending order, cell value
\* by cell value over the width of ws.
BodyIsRows(out, ws, rows) ==
  /\ Len(Body(out)) = Cardinality(rows)
  /\ \A i \in 1..Len(Body(out)) :
       /\ Len(Body(out)[i]) = max_column(ws)
       /\ \A c \in 1..max_column(ws) :
            Body(out)[i][c].value = cell(ws, Nth(rows, i), c).value

\* The stages at which the source sheet is loaded and its columns resolved.
Projected == {"PROJECT_AND_SAVE", "DONE"}

\* The data rows of the source of the reference category whose date is in the delta.
DeltaRows ==
  {r \in DataRows(ws_source) :
     /\ cell(ws_source, r, Resolved(ws_source, HospKeywordsProcess)).value
          = reference_hospital_name
     /\ excel_to_datetime(cell(ws_source, r, Resolved(ws_source, DateKeywords)))
          \in Range(missing_dates_list)}

\* The (hospital, date) key of an output row is in the principal sheet.
KeyInPrincipal(row) ==
  /\ ~Unresolved(ws_principal, HospKeywordsIndex)
  /\ ~Unresolved(ws_principal, DateKeywords)
  /\ \E r \in DataRows(ws_principal) :
       /\ cell(ws_principal, r, Resolved(ws_principal, HospKeywordsIndex)).value
            = row[Resolved(ws_source, HospKeywordsProcess)].value
       /\ excel_to_datetime(cell(ws_principal, r, Resolved(ws_principal, DateKeywords)))
            = excel_to_datetime(row[Resolved(ws_source, DateKeywords)])

\* C2: once the projection has run, the body of the output is exactly the
\* source data rows of the reference category whose normalized date is in the
\* delta, one output row per source row, in ascending row order; so no output
\* row is of another category, has an absent date, or has its (category, date)
\* key in the principal sheet.
C2_ProjectionExact ==
  pc \in Projected =>
    /\ BodyIsRows(ws_output, ws_source, DeltaRows)
    /\ lines_added_count = Cardinality(DeltaRows)
    /\ \A i \in 1..Len(Body(ws_output)) :
         LET row == Body(ws_output)[i]
         IN /\ row[Resolved(ws_source, HospKeywordsProcess)].value = reference_hospital_name
            /\ excel_to_datetime(row[Resolved(ws_source, DateKeywords)]) # NoneV
            /\ ~KeyInPrincipal(row)

\* A projection that left out a row of another category and a row whose key
\* the principal already has.
C2_Witness ==
  /\ pc = "DONE"
  /\ output_file_index \in written
  /\ Cardinality(DataRows(ws_source)) > Len(Body(ws_output))
  /\ \E r \in DataRows(ws_source) :
       cell(ws_source, r, hosp_col_source_idx).value # reference_hospital_name
  /\ principal_hospital_dates # <<>>

\* The data rows of the source that match on (category, date): the rows of the
\* reference category whose date cell normalizes to a date.
MatchingRows ==
  {r \in DataRows(ws_source) :
     /\ cell(ws_source, r, Resolved(ws_source, HospKeywordsProcess)).value
          = reference_hospital_name
     /\ ~Unresolved(ws_source, DateKeywords)
     /\ Truthy(excel_to_datetime(cell(ws_source, r, Resolved(ws_source, DateKeywords))))}

\* C3: round trip.  When the index of the principal sheet for the reference
\* category is empty, processing a source file ends with an output whose body
\* is exactly the (category, date)-matching rows of the source, in row order
\* and value for value (and with no output when there is no such row).
C3_RoundTrip ==
  (/\ pc \in Terminal
   /\ Truthy(reference_hospital_name)
   /\ principal_hospital_dates = <<>>)
  => IF MatchingRows = {}
     THEN output_file_index \notin written
     ELSE /\ pc = "DONE"
          /\ output_file_index \in written
          /\ BodyIsRows(ws_output, ws_source, MatchingRows)

\* main() has returned.
MainReturned == main_pc \in {"done", "no_principal", "no_sources"}

\* The stages of process_files that have a next step.
Running ==
  {"START", "LOAD", "RESOLVE_REFERENCE_CATEGORY", "BUILD_INDEXES", "COMPUTE_DELTA",
   "PROJECT_AND_SAVE"} \cup Terminal

\* C4: no failure of a source file leaves process_files or ends the loop of
\* main: an exception ends the file in an except clause with the loop still
\* running, the run is never stuck before main returns, and when the loop is
\* over every source file has been processed and the closing message printed.
C4_LoopSurvivesFailures ==
  /\ main_pc # "crashed"
  /\ pc = "DONE_WITH_ERROR" => main_pc = "loop" /\ error # ""
  /\ error # "" => pc = "DONE_WITH_ERROR"
  /\ (main_pc = "loop" /\ pc = "idle") => processed = output_file_index - 1
  /\ failed \subseteq 1..processed
  /\ main_pc = "done" => processed = nfiles
  /\ (main_pc = "loop" /\ pc = "idle" /\ output_file_index > nfiles) => processed = nfiles
  /\ ~MainReturned =>
       \/ main_pc = "start"
       \/ main_pc = "loop" /\ pc \in Running /\ output_file_index <= nfiles
       \/ main_pc = "loop" /\ pc = "idle" /\ output_file_index <= nfiles + 1

\* The run is over, with its closing message, after a file that was not the
\* last had failed.
C4_Witness ==
  /\ main_pc = "done"
  /\ processed = nfiles
  /\ \E k \in failed : k < nfiles

PastIndexes == {"BUILD_INDEXES", "COMPUTE_DELTA", "PROJECT_AND_SAVE", "DONE", "DONE_NO_OP"}
PastDelta == PastIndexes \ {"BUILD_INDEXES"}

SourceUnresolved ==
  Unresolved(ws_source, DateKeywords) \/ Unresolved(ws_source, HospKeywordsIndex)

PrincipalUnresolved ==
  Unresolved(ws_principal, DateKeywords) \/ Unresolved(ws_principal, HospKeywordsIndex)

\* C9: a sheet whose hospital or date column cannot be resolved gives the
\* empty index and no exception; the delta is still computed, it is empty
\* when the source index is empty and is the whole source index when the
\* principal index is empty; the file does not end in error before its delta.
C9_SoftFailure ==
  /\ pc \in PastIndexes =>
       /\ PrincipalUnresolved => principal_hospital_dates = <<>>
       /\ SourceUnresolved => source_hospital_dates = <<>>
       /\ error = ""
  /\ pc \in PastDelta =>
       /\ source_hospital_dates = <<>> => missing_dates_list = <<>>
       /\ principal_hospital_dates = <<>> => missing_dates_list = source_hospital_dates
  /\ (/\ pc = "DONE_WITH_ERROR"
      /\ Truthy(reference_hospital_name)
      /\ SourceUnresolved \/ PrincipalUnresolved)
     => missing_dates_list # <<>>

\* The delta of a source against a principal sheet without a date column.
C9_Witness ==
  /\ pc = "COMPUTE_DELTA"
  /\ PrincipalUnresolved
  /\ missing_dates_list # <<>>
  /\ missing_dates_list = source_hospital_dates

\* C10 as stated: whichever column fails to resolve, in the source sheet or
\* in the principal sheet, the file ends in error with no output written.
C10_AnyResolutionFailureAborts ==
  (/\ pc \in Terminal
   /\ ws_source # NoSheet
   /\ \/ Unresolved(ws_source, HospKeywordsProcess)
      \/ Truthy(reference_hospital_name) /\ (SourceUnresolved \/ PrincipalUnresolved))
  => /\ pc = "DONE_WITH_ERROR"
     /\ output_file_index \notin written

C10_States ==
  /\ (/\ pc \in Terminal
      /\ ws_source # NoSheet
      /\ Unresolved(ws_source, HospKeywordsProcess))
     => /\ pc = "DONE_WITH_ERROR"
        /\ error = "ValueError"
        /\ main_pc = "loop"
        /\ output_file_index \notin written
        /\ hosp_col_source_idx = 0
        /\ reference_hospital_name = NoneV
        /\ ws_output = NoSheet
  /\ (/\ pc \in Terminal
      /\ Truthy(reference_hospital_name)
      /\ Unresolved(ws_source, DateKeywords))
     => /\ pc = "DONE_NO_OP"
        /\ output_file_index \notin written
  /\ (/\ pc \in Terminal
      /\ Truthy(reference_hospital_name)
      /\ PrincipalUnresolved)
     => /\ principal_hospital_dates = <<>>
        /\ missing_dates_list = source_hospital_dates
        /\ pc = "DONE_WITH_ERROR" => missing_dates_list # <<>>
  /\ pc = "START" => LocalsUnset

\* C10, amended: only a source sheet without a hospital column ends its file
\* in error (ValueError, nothing written, no column substituted, the loop
\* going on).  A source sheet without a date column ends as a no-op, and a
\* principal sheet without one of its columns counts as an empty index.  In
\* every case the other files are untouched: process_files starts each file
\* with fresh locals and only saving the current file changes the outputs.
C10_OnlySourceHospitalAborts ==
  /\ []C10_States
  /\ [][written' # written =>
          /\ pc = "PROJECT_AND_SAVE"
          /\ written' = written \cup {output_file_index}]_vars

\* The second file has no hospital column and ends in error; the output of
\* the first file stays.
C10_Witness ==
  /\ pc = "DONE_WITH_ERROR"
  /\ ws_source # NoSheet
  /\ Unresolved(ws_source, HospKeywordsProcess)
  /\ output_file_index = 2
  /\ written = {1}

\* ------------------------------------------------------------------ C1
\* The indexes of the source dates that equal no reference date.
KeptIndexes(source_dates, reference_dates) ==
  {i \in 1..Len(source_dates) :
     \A j \in 1..Len(reference_dates) : source_dates[i] # reference_dates[j]}

\* Two datetimes of the same calendar day.
SameDay(a, b) == a.t[1] = b.t[1] /\ a.t[2] = b.t[2] /\ a.t[3] = b.t[3]

\* C1: find_missing_dates returns exactly the elements of source_dates equal
\* to no element of reference_dates, each as often as and in the order in
\* which source_dates has them; so a source date that differs from every
\* reference date in its time of day only is returned.
C1_MissingExact ==
  call.fn = "find_missing_dates" =>
    LET kept == KeptIndexes(call.source_dates, call.principal_dates)
    IN /\ ret.raised = ""
       /\ Len(ret.value) = Cardinality(kept)
       /\ \A k \in 1..Len(ret.value) : ret.value[k] = call.source_dates[Nth(kept, k)]
       /\ \A d \in Range(call.source_dates) :
            (d \in Range(ret.value)) <=> (d \notin Range(call.principal_dates))

\* A call that drops a date of the reference and keeps, after another kept
\* date, one that has the day of a reference date and another time.
C1_Witness ==
  /\ call.fn = "find_missing_dates"
  /\ Len(ret.value) >= 2
  /\ Len(ret.value) < Len(call.source_dates)
  /\ \E d \in Range(ret.value), e \in Range(call.principal_dates) : SameDay(d, e) /\ d # e

\* ------------------------------------------------------------------ C6
Reverse(seq) == [i \in 1..Len(seq) |-> seq[Len(seq) + 1 - i]]

\* C6: find_column returns the least position of 1..max_col whose header is
\* not blank and contains a keyword, case apart; it raises ValueError exactly
\* when no position of 1..max_col matches; the order of the keywords and a
\* second call change nothing.
C6_FindColumnContract ==
  call.fn = "find_column" =>
    LET matching == MatchingColumns(call.ws, call.keywords, call.max_col)
    IN /\ (ret.raised = "ValueError") <=> (matching = {})
       /\ matching # {} =>
            /\ ret.raised = ""
            /\ ret.value \in matching
            /\ \A c \in matching : ret.value <= c
       /\ ret.value = find_column(call.ws, Reverse(call.keywords), call.max_col)
       /\ ret.calls = 2 => ret.value = ret.first

\* ------------------------------------------------------------------ C7
\* The texts of the cells above that are dates in one of the three formats
\* (as strptime reads them: one digit is enough for a day or a month), with
\* the datetime each one writes.
ParsedTexts ==
  { <<T_03_01_2024, DtV(2024, 1, 3, 0, 0, 0)>>,
    <<T_3_1_2024, DtV(2024, 1, 3, 0, 0, 0)>>,
    <<T_29_02_2024, DtV(2024, 2, 29, 0, 0, 0)>>,
    <<T_2024_01_03_123000, DtV(2024, 1, 3, 12, 30, 0)>>,
    <<T_2024_01_03, DtV(2024, 1, 3, 0, 0, 0)>> }

\* What the claim says of a cell: a datetime and the number of a date-flagged
\* cell as they are, a text as its format reads it, absent otherwise.
Normalized(c) ==
  CASE c.value.k = "dt" -> c.value
    [] c.value.k = "num" /\ c.number_format = DateFormat -> c.value
    [] c.value.k = "str" /\ (\E e \in ParsedTexts : e[1] = c.value.s) ->
         (CHOOSE e \in ParsedTexts : e[1] = c.value.s)[2]
    [] OTHER -> NoneV

RowsOfCategory(ws, category) ==
  {r \in DataRows(ws) : cell(ws, r, Resolved(ws, HospKeywordsIndex)).value = category}

\* a is before b in time
Earlier(a, b) ==
  \E i \in 1..6 : a.t[i] < b.t[i] /\ \A j \in 1..(i - 1) : a.t[j] = b.t[j]

\* C8: on a sheet whose category and date columns are found,
\* get_hospital_dates returns, in ascending order and each once, exactly the
\* dates that are not absent of the data rows whose category cell equals the
\* value asked for, case included; for a value in no row it returns the empty
\* list; it raises nothing.
C8_IndexExact ==
  ( /\ call.fn = "get_hospital_dates"
    /\ ~Unresolved(call.ws, DateKeywords)
    /\ ~Unresolved(call.ws, HospKeywordsIndex) ) =>
    LET rows == RowsOfCategory(call.ws, call.hosp_value)
        dates == {Normalized(cell(call.ws, r, Resolved(call.ws, DateKeywords))) : r \in rows}
    IN /\ ret.raised = ""
       /\ Range(ret.value) = dates \ {NoneV}
       /\ \A i \in 1..Len(ret.value), j \in 1..Len(ret.value) :
            i < j => Earlier(ret.value[i], ret.value[j])
       /\ rows = {} => ret.value = <<>>

\* A sheet of two rows of the hospital where the later date comes first: the
\* index has the two dates, the earlier one first.
C8_Witness ==
  /\ call.fn = "get_hospital_dates"
  /\ ~Unresolved(call.ws, DateKeywords)
  /\ ~Unresolved(call.ws, HospKeywordsIndex)
  /\ call.hosp_value = HospA.value
  /\ max_row(call.ws) = 3
  /\ Len(ret.value) = 2
  /\ ret.value[1] # ret.value[2]
  /\ Normalized(cell(call.ws, 2, Resolved(call.ws, DateKeywords))) = ret.value[2]
  /\ Normalized(cell(call.ws, 3, Resolved(call.ws, DateKeywords))) = ret.value[1]

\* ----------------------------------------------------------------- C11
\* A cell value that is not empty: neither None nor the empty text.
NonEmpty(v) == v # NoneV /\ v # StrV(<<>>)

\* The data rows of the source whose category cell is not empty.
CategoryRows(ws) ==
  {r \in DataRows(ws) : NonEmpty(cell(ws, r, Resolved(ws, HospKeywordsProcess)).value)}

\* The category of the lowest of these rows.
FirstCategory(ws) ==
  cell(ws, Nth(CategoryRows(ws), 1), Resolved(ws, HospKeywordsProcess)).value

\* The stages of a file whose reference category has been found.
PastResolve == PastIndexes \cup {"RESOLVE_REFERENCE_CATEGORY", "PROJECT_AND_SAVE"}

\* C11: the reference category is the category of the lowest data row whose
\* category cell is not empty, and the indexes and the projected rows are
\* those of that value; a file with no such row ends at the skip, with no
\* index built, no output and no exception.
C11_ReferenceCategory ==
  /\ pc \in PastResolve =>
       /\ CategoryRows(ws_source) # {}
       /\ reference_hospital_name = FirstCategory(ws_source)
  /\ pc \in PastIndexes =>
       /\ source_hospital_dates =
            get_hospital_dates(ws_source, FirstCategory(ws_source)).value
       /\ principal_hospital_dates =
            get_hospital_dates(ws_principal, FirstCategory(ws_source)).value
  /\ pc \in Projected =>
       \A k \in 1..Len(Body(ws_output)) :
         Body(ws_output)[k][hosp_col_source_idx].value = FirstCategory(ws_source)
  /\ pc = "DONE_SKIPPED" =>
       /\ CategoryRows(ws_source) = {}
       /\ source_hospital_dates = <<>> /\ principal_hospital_dates = <<>>
       /\ ws_output = NoSheet
       /\ output_file_index \notin written
       /\ error = ""
  /\ (pc = "DONE_WITH_ERROR" /\ hosp_col_source_idx # 0) => CategoryRows(ws_source) # {}

\* ----------------------------------------------------------------- C12
\* The place in the list of the source file being processed, or of the next one.
CurrentFile == processed + 1

C12_Numbers ==
  /\ main_pc = "loop" => output_file_index = CurrentFile
  /\ main_pc = "done" => output_file_index = nfiles + 1 /\ processed = nfiles
  /\ written \subseteq 1..nfiles
  /\ written \subseteq 1..(IF pc = "idle" THEN processed ELSE CurrentFile)
  /\ (written \cup failed) \subseteq 1..nfiles

\* C12: the k-th source file of the list is given the number k whatever the
\* files before it did, the numbers given are 1..n, and a source file writes
\* at most one output file, once, under its own number, which no other file
\* of the run has used.
C12_DenseNumbering ==
  /\ []C12_Numbers
  /\ [][ /\ (pc = "START" /\ pc' # "START") => output_file_index = CurrentFile
         /\ written' # written =>
              /\ pc = "PROJECT_AND_SAVE"
              /\ CurrentFile \notin written
              /\ written' = written \cup {CurrentFile} ]_vars

\* The first of two files ended in error and the second wrote its output,
\* under the number 2.
C12_Witness ==
  /\ main_pc = "done"
  /\ nfiles = 2
  /\ failed = {1}
  /\ written = {2}

\* ----------------------------------------------------------------- C13
\* The second call for the source file has ended.
SecondEnded == processed = 1 /\ pc \in Terminal

\* C13: a second call of process_files on the same principal and source files
\* ends as the first one did, with the same delta; once the principal file
\* holds, for the reference hospital, the dates the first call found missing,
\* the second call finds an empty delta and ends as a no-op without output.
C13_Idempotence ==
  /\ (SecondEnded /\ ~ret.updated) =>
       /\ missing_dates_list = ret.delta
       /\ pc = ret.outcome
       /\ reference_hospital_name = ret.hospital
  /\ (processed = 1 /\ ret.updated /\ pc \in PastDelta) => missing_dates_list = <<>>
  /\ (SecondEnded /\ ret.updated) =>
       /\ pc = "DONE_NO_OP"
       /\ CurrentFile \notin written

\* The first call wrote its output for a delta of two dates; they were added
\* to the principal file and the second call ended as a no-op.
C13_Witness ==
  /\ SecondEnded
  /\ ret.updated
  /\ ret.outcome = "DONE"
  /\ Len(ret.delta) = 2
  /\ written = {1}
  /\ pc = "DONE_NO_OP"

\* ----------------------------------------------------------------- C14
\* pc names the last stage a file has completed; the stage that fails, or
\* that finds no reference category, is the one after it.
Stages ==
  {"START", "LOAD", "RESOLVE_REFERENCE_CATEGORY", "BUILD_INDEXES", "COMPUTE_DELTA",
   "PROJECT_AND_SAVE"}

\* The steps from stage to stage that the claim allows.
ClaimedSteps ==
  { <<"idle", "START">>, <<"START", "LOAD">>, <<"LOAD", "RESOLVE_REFERENCE_CATEGORY">>,
    <<"RESOLVE_REFERENCE_CATEGORY", "BUILD_INDEXES">>, <<"BUILD_INDEXES", "COMPUTE_DELTA">>,
    <<"COMPUTE_DELTA", "DONE_NO_OP">>, <<"COMPUTE_DELTA", "PROJECT_AND_SAVE">>,
    <<"PROJECT_AND_SAVE", "DONE">> }
    \cup {<<s, "DONE_WITH_ERROR">> : s \in Stages}
    \cup {<<t, "idle">> : t \in {"DONE", "DONE_NO_OP", "DONE_WITH_ERROR"}}

\* The same with the end of a file in which no reference category is found.
SkipSteps == {<<"LOAD", "DONE_SKIPPED">>, <<"DONE_SKIPPED", "idle">>}

\* What goes with a step from stage to stage.
StepConditions ==
  /\ pc' = "PROJECT_AND_SAVE" => missing_dates_list # <<>>
  /\ pc' = "DONE_NO_OP" => missing_dates_list = <<>>
  /\ (pc' = "DONE_WITH_ERROR") <=> (error' # "" /\ error = "")
  /\ pc' = "START" => output_file_index = CurrentFile /\ LocalsUnset

\* The claim as it stands: every file runs from START to one of DONE,
\* DONE_NO_OP and DONE_WITH_ERROR by the steps of the claim.
C14_StagesAsClaimed ==
  /\ [][pc' # pc => (<<pc, pc'>> \in ClaimedSteps /\ StepConditions)]_vars
  /\ (pc = "START") ~> (pc \in {"DONE", "DONE_NO_OP", "DONE_WITH_ERROR"})

\* C14: the stages of a source file follow one another in the order START,
\* LOAD, RESOLVE_REFERENCE_CATEGORY, BUILD_INDEXES, COMPUTE_DELTA, then
\* DONE_NO_OP for an empty delta or PROJECT_AND_SAVE and DONE for another,
\* none being skipped or taken twice; a failure leads from any stage straight
\* to DONE_WITH_ERROR; a file in which the resolution of the reference
\* category finds no value ends there, in the skip state; every file that
\* starts reaches one terminal state, and the next file starts after it.
C14_StageOrder ==
  /\ [][pc' # pc => (<<pc, pc'>> \in ClaimedSteps \cup SkipSteps /\ StepConditions)]_vars
  /\ [][pc' = "DONE_SKIPPED" => ~Truthy(reference_hospital_name') /\ error' = ""]_vars
  /\ (pc = "START") ~> (pc \in Terminal)
  /\ (main_pc = "loop") ~> (main_pc = "done" /\ processed = nfiles)

\* A file has gone through every stage and is DONE while another one is still
\* to come.
C14_Witness ==
  /\ pc = "DONE"
  /\ missing_dates_list # <<>>
  /\ lines_added_count > 0
  /\ CurrentFile < nfiles

\* ----------------------------------------------------------------- C15
\* The number of columns of a sheet as its file holds it.
Width(ws) == max_column(ws)

\* The last column of row r that holds a value, 0 if none does.
LastValue(ws, r) ==
  LET held == {c \in 1..Len(ws.rows[r]) : ws.rows[r][c].value # NoneV}
  IN IF held = {} THEN 0 ELSE CHOOSE c \in held : \A d \in held : d <= c

\* C15: row 1 of the output holds, column by column, the values of the header
\* row of the principal file and nothing of the source, so it is as wide as
\* that header whatever the width of the source; every other row holds,
\* column by column over the columns of the source, the values and number
\* formats of its source row, and is as wide as the source, neither cut nor
\* filled to the width of the header.
C15_HeaderAndBodyCopies ==
  pc \in Projected =>
    /\ \A c \in 1..DefaultMaxCol + Width(principal_file.ws) :
         cell(ws_output, 1, c).value = cell(principal_file.ws, 1, c).value
    /\ LastValue(ws_output, 1) = LastValue(principal_file.ws, 1)
    /\ Len(Body(ws_output)) = Cardinality(DeltaRows)
    /\ \A i \in 1..Len(Body(ws_output)) :
         /\ Len(Body(ws_output)[i]) = Width(source_file.ws)
         /\ \A c \in 1..Width(source_file.ws) :
              LET source_cell == cell(source_file.ws, Nth(DeltaRows, i), c)
              IN /\ Body(ws_output)[i][c].value = source_cell.value
                 /\ Body(ws_output)[i][c].number_format = source_cell.number_format

\* An output saved for a source that is wider than the principal sheet.
C15_Witness ==
  /\ pc = "DONE"
  /\ output_file_index \in written
  /\ Width(source_file.ws) > Width(principal_file.ws)
  /\ LastValue(principal_file.ws, 1) = Width(principal_file.ws)

\* ----------------------------------------------------------------- C16
\* The rows of the output whose date cell gives the date d.
OutputRowsOf(d) ==
  {k \in 1..Len(Body(ws_output)) :
     excel_to_datetime(Body(ws_output)[k][Resolved(ws_source, DateKeywords)]) = d}

\* C16: a file whose delta is not empty ends with its output written, the
\* projection having added at least one row for every date of the delta, so
\* that the projection never ends with no row added; the projection and the
\* index builder find the hospital column of the source at the same position
\* although their keyword lists are in different orders.
C16_DeltaIsWritten ==
  /\ (pc \in PastDelta /\ missing_dates_list # <<>>) =>
       find_column(ws_source, HospKeywordsProcess, DefaultMaxCol)
         = find_column(ws_source, HospKeywordsIndex, DefaultMaxCol)
  /\ pc = "PROJECT_AND_SAVE" => lines_added_count > 0
  /\ (pc \in Terminal /\ missing_dates_list # <<>>) =>
       /\ pc = "DONE"
       /\ lines_added_count > 0
       /\ \A d \in Range(missing_dates_list) : OutputRowsOf(d) # {}
       /\ output_file_index \in written

\* ----------------------------------------------------------------- C17
\* The sheet in memory holds, cell by cell, what the sheet of the file holds.
SameContents(in_memory, in_file) ==
  /\ max_row(in_memory) = max_row(in_file)
  /\ \A r \in 1..max_row(in_file), c \in 1..DefaultMaxCol + max_column(in_file) :
       cell(in_memory, r, c) = cell(in_file, r, c)

\* The stages at which the two workbooks are loaded.
Loaded == (Stages \ {"START"}) \cup {"DONE", "DONE_NO_OP", "DONE_SKIPPED"}

C17_States ==
  /\ pc \in Loaded =>
       /\ SameContents(ws_principal, principal_file.ws)
       /\ SameContents(ws_source, source_file.ws)
  /\ pc = "DONE_WITH_ERROR" =>
       /\ ws_principal # NoSheet => SameContents(ws_principal, principal_file.ws)
       /\ ws_source # NoSheet => SameContents(ws_source, source_file.ws)

\* C17: whatever the outcome of a file, the principal file and the source
\* file stay as they were, the sheets read from them keep every cell they had,
\* and the one thing written is the output file of the current source file.
C17_InputsUntouched ==
  /\ []C17_States
  /\ [][ /\ principal_file' = principal_file
         /\ (pc \in Loaded \cup {"DONE_WITH_ERROR"} /\ pc' # "idle") => source_file' = source_file
         /\ written' # written =>
              /\ pc = "PROJECT_AND_SAVE" /\ lines_added_count > 0
              /\ written' \ written = {output_file_index}
              /\ written \subseteq written' ]_vars

\* An output has been written after a scan created cells in the principal
\* sheet in memory.
C17_Witness ==
  /\ pc = "DONE"
  /\ output_file_index \in written
  /\ max_column(ws_principal) > max_column(principal_file.ws)
  /\ SameContents(ws_principal, principal_file.ws)

====
